---- MODULE Spec2Model ----
(***************************************************************************)
(* The StepperMotor class (A4988 step/direction driver) of                 *)
(* src/StepperMotor.py and src/BlinkLed.py.  The two files hold two        *)
(* variants of the same class; the variable `variant` says which one a     *)
(* behaviour runs.  Each public method is one action.  The pins and the    *)
(* PWM peripheral of the `machine` module are modelled by the levels and   *)
(* the frequency the class last wrote to them.                             *)
(*                                                                         *)
(* Optional values: None is the empty sequence, Some(v) the one-element    *)
(* sequence <<v>>.  An instance attribute that was never assigned          *)
(* (self.position before homing) is None as well: reading it raises        *)
(* AttributeError.                                                         *)
(*                                                                         *)
(* self.speed is the float rpm * steps_per_revolution / 60.  The model     *)
(* keeps it exactly, as its numerator rpm * steps_per_revolution, i.e. in  *)
(* units of 1/60 Hz; so is the frequency handed to the PWM peripheral.     *)
(***************************************************************************)
EXTENDS Integers, Sequences, FiniteSets

VARIABLES
    variant,          \* "StepperMotor" (moveSteps) or "BlinkLed" (step)
    proc,             \* "running", or "exited" after sys.exit(1)
    constructed,      \* __init__ has returned normally
    stepPin, dirPin, disablePin, homingPin,   \* pin identities, None when absent
    currentPosition,  \* self.currentPosition
    currentSpeed,     \* self.currentSpeed
    stepDivider,      \* self.stepDivider
    direction,        \* self.direction
    position,         \* self.position: None while the attribute does not exist
    speed,            \* self.speed, in 1/60 Hz: None while the attribute does not exist
    stepLevel, dirLevel, disableLevel,        \* last level written to the output pins
    homingLevel,      \* level of the homing input pin (pull-up: 1 = open)
    pwmFreq,          \* frequency handed to the PWM on the step pin, in 1/60 Hz
    pulses,           \* high/low pulses emitted by the last moveSteps/step call
    stepWrites,       \* levels that call wrote to the step pin, in order
    last,             \* the last call completed: name, argument, outcome, pre-state
    prev              \* the call before it

vars == <<variant, proc, constructed, stepPin, dirPin, disablePin, homingPin,
          currentPosition, currentSpeed, stepDivider, direction, position,
          speed, stepLevel, dirLevel, disableLevel, homingLevel, pwmFreq,
          pulses, stepWrites, last, prev>>

-----------------------------------------------------------------------------
(* Bounds of the model *)

MaxSteps == 2
MaxPos == 2

(* Inputs *)
StepValues == (0 - MaxSteps) .. MaxSteps
RpmValues == {0 - 700, 0 - 60, 300, 600, 700}
DividerValues == {0, 1, 2, 3, 4, 8, 16}

-----------------------------------------------------------------------------
(* Values *)

None == << >>
Some(v) == << v >>
Val(o) == o[1]

Abs(x) == IF x < 0 THEN 0 - x ELSE x

Variants == {"StepperMotor", "BlinkLed"}

VALID_MICROSTEPS == {1, 2, 4, 8, 16}
MAX_RPM == 600
FULL_STEPS == 200

(* int(x) of a float x = n/60: truncation toward zero (BlinkLed.py:99),    *)
(* returned in 1/60 Hz like its argument                                   *)
IntOf(n) == IF n < 0 THEN 0 - (((0 - n) \div 60) * 60) ELSE (n \div 60) * 60

(* Pin.value(x) drives the pin high for every truthy x, low for 0 *)
PinValue(x) == IF x # 0 THEN 1 ELSE 0

-----------------------------------------------------------------------------
(* The record of a call: method, argument, outcome.  For the methods in    *)
(* Tracked it also keeps <<position, direction>> as they were before the   *)
(* call; prev keeps the call before the last one when both are calls of    *)
(* the same tracked method (two moves in a row, two reversals in a row).   *)

Tracked == {"moveSteps", "reverseDirections"}

Call(op, arg, result, pre) ==
    [ op |-> op, arg |-> arg, result |-> result, pre |-> pre ]

NoCall == Call("none", 0, "none", << >>)

Pre(op) == IF op \in Tracked THEN <<position, direction>> ELSE << >>

Record(op, arg, result) ==
    /\ last' = Call(op, arg, result, Pre(op))
    /\ prev' = IF op \in Tracked /\ last.op = op THEN last ELSE NoCall

Alive == proc = "running" /\ constructed

config == <<variant, constructed, stepPin, dirPin, disablePin, homingPin,
            currentPosition>>

-----------------------------------------------------------------------------
(* __init__: the state a constructor call leaves.  hl is the level the     *)
(* homing switch holds the input pin at when the pin is configured.        *)

InitDirLevel(v) == IF v = "BlinkLed" THEN 1 ELSE 0

New(v, sp, dp, xp, hp, hl) ==
    /\ variant = v
    /\ pulses = 0
    /\ stepWrites = << >>
    /\ pwmFreq = None
    /\ speed = None
    /\ position = None
    /\ currentPosition = None
    /\ currentSpeed = None
    /\ IF sp = None \/ dp = None \/ xp = None
       THEN /\ proc = "exited"
            /\ constructed = FALSE
            /\ stepPin = None /\ dirPin = None /\ disablePin = None
            /\ homingPin = None
            /\ stepDivider = 0 /\ direction = 0
            /\ stepLevel = 0 /\ dirLevel = 0 /\ disableLevel = 0
            /\ homingLevel = None
            /\ last = Call("__init__", 0, "SystemExit", << >>)
       ELSE /\ proc = "running"
            /\ constructed = TRUE
            /\ stepPin = sp /\ dirPin = dp /\ disablePin = xp
            /\ homingPin = hp
            /\ stepDivider = 1
            /\ direction = 1
            /\ stepLevel = 0
            /\ dirLevel = InitDirLevel(v)
            /\ disableLevel = 1
            /\ homingLevel = IF hp = None THEN None ELSE Some(hl)
            /\ last = Call("__init__", 0, "ok", << >>)
    /\ prev = NoCall

Init ==
    \E v \in Variants, sp \in {None, Some(17)}, dp \in {None, Some(16)},
       xp \in {None, Some(7)}, hp \in {None, Some(4)}, hl \in {0, 1} :
        New(v, sp, dp, xp, hp, hl)

-----------------------------------------------------------------------------
(* enableMotor / disableMotor.  BlinkLed.py keeps Pin objects in           *)
(* self.stepPin, self.dirPin and self.disablePin and in places wraps them  *)
(* again, Pin(self.disablePin, Pin.OUT): that is the same pin.             *)

(* variant of enableMotor that toggles the disable pin *)
enableMotor_Toggle ==
    /\ Alive
    /\ disableLevel' = 1 - disableLevel
    /\ Record("enableMotor", 0, "ok")
    /\ UNCHANGED <<config, proc, currentSpeed, stepDivider, direction,
                   position, speed, stepLevel, dirLevel, homingLevel,
                   pwmFreq, pulses, stepWrites>>

enableMotor ==
    /\ Alive
    /\ disableLevel' = 0
    /\ Record("enableMotor", 0, "ok")
    /\ UNCHANGED <<config, proc, currentSpeed, stepDivider, direction,
                   position, speed, stepLevel, dirLevel, homingLevel,
                   pwmFreq, pulses, stepWrites>>

disableMotor ==
    /\ Alive
    /\ disableLevel' = 1
    /\ Record("disableMotor", 0, "ok")
    /\ UNCHANGED <<config, proc, currentSpeed, stepDivider, direction,
                   position, speed, stepLevel, dirLevel, homingLevel,
                   pwmFreq, pulses, stepWrites>>

(* reverseDirections *)

(* variant of reverseDirections: self.direction = -1 *)
reverseDirections_SetNegative ==
    /\ Alive
    /\ direction' = 0 - 1
    /\ Record("reverseDirections", 0, "ok")
    /\ UNCHANGED <<config, proc, currentSpeed, stepDivider, position, speed,
                   stepLevel, dirLevel, disableLevel, homingLevel, pwmFreq,
                   pulses, stepWrites>>

reverseDirections ==
    /\ Alive
    /\ direction' = 0 - direction
    /\ Record("reverseDirections", 0, "ok")
    /\ UNCHANGED <<config, proc, currentSpeed, stepDivider, position, speed,
                   stepLevel, dirLevel, disableLevel, homingLevel, pwmFreq,
                   pulses, stepWrites>>

(* setMicroStep(stepDivider) *)

(* variant of setMicroStep without the membership test *)
setMicroStep_NoValidation(d) ==
    /\ Alive
    /\ stepDivider' = d
    /\ Record("setMicroStep", d, "ok")
    /\ UNCHANGED <<config, proc, currentSpeed, direction, position, speed,
                   stepLevel, dirLevel, disableLevel, homingLevel, pwmFreq,
                   pulses, stepWrites>>

setMicroStep(d) ==
    /\ Alive
    /\ IF d \notin VALID_MICROSTEPS
       THEN /\ proc' = "exited"
            /\ Record("setMicroStep", d, "SystemExit")
            /\ UNCHANGED stepDivider
       ELSE /\ stepDivider' = d
            /\ Record("setMicroStep", d, "ok")
            /\ UNCHANGED proc
    /\ UNCHANGED <<config, currentSpeed, direction, position, speed,
                   stepLevel, dirLevel, disableLevel, homingLevel, pwmFreq,
                   pulses, stepWrites>>

-----------------------------------------------------------------------------
(* moveSteps(steps) of StepperMotor.py, step(steps) of BlinkLed.py *)

(* n passes of the loop body: step pin high, then low *)
RECURSIVE StepWrites(_)
StepWrites(n) == IF n <= 0 THEN << >> ELSE <<1, 0>> \o StepWrites(n - 1)

(* for _ in range(abs(steps)): the levels written to the step pin *)
LoopWrites(steps) == StepWrites(Abs(steps))

(* high-then-low pulses in a sequence of step pin levels *)
PulsesIn(w) ==
    Cardinality({ i \in 1 .. (Len(w) - 1) : w[i] = 1 /\ w[i + 1] = 0 })

(* the level the loop leaves the step pin at *)
StepLevelAfter(steps) ==
    LET w == LoopWrites(steps)
    IN  IF w = << >> THEN stepLevel ELSE w[Len(w)]

(* StepperMotor.py: the pulses, then a print that reads self.position.     *)
(* Reading the missing attribute raises AttributeError to the caller: the  *)
(* call ends there, with its pin writes done, and the object stays usable. *)
moveStepsBody(steps) ==
    /\ stepWrites' = LoopWrites(steps)
    /\ stepLevel' = StepLevelAfter(steps)
    /\ pulses' = PulsesIn(LoopWrites(steps))
    /\ Record("moveSteps", steps,
              IF position = None THEN "AttributeError" ELSE "ok")
    /\ UNCHANGED <<dirLevel, position>>

(* BlinkLed.py: direction pin, the pulses, then self.position += ... *)
DirLevelForStep(steps) ==
    IF steps > 0 THEN PinValue(direction)
    ELSE IF steps < 0 THEN PinValue(0 - direction)
    ELSE dirLevel

(* self.position += steps*self.direction *)
stepPosition(pos, dir, steps) == Some(Val(pos) + steps * dir)

stepBody(steps) ==
    /\ dirLevel' = DirLevelForStep(steps)
    /\ stepWrites' = LoopWrites(steps)
    /\ stepLevel' = StepLevelAfter(steps)
    /\ pulses' = PulsesIn(LoopWrites(steps))
    /\ IF position = None
       THEN /\ Record("moveSteps", steps, "AttributeError")
            /\ UNCHANGED position
       ELSE /\ position' = stepPosition(position, direction, steps)
            /\ Abs(Val(position')) <= MaxPos
            /\ Record("moveSteps", steps, "ok")

(* self.position after a move of `steps` started at pos with direction    *)
(* dir: unchanged by moveSteps, and by step when the attribute is missing  *)
PositionAfterMove(pos, dir, steps) ==
    IF variant = "BlinkLed" /\ pos # None
    THEN stepPosition(pos, dir, steps)
    ELSE pos

moveSteps(steps) ==
    /\ Alive
    /\ IF variant = "BlinkLed" THEN stepBody(steps) ELSE moveStepsBody(steps)
    /\ UNCHANGED <<config, proc, currentSpeed, stepDivider, direction, speed,
                   disableLevel, homingLevel, pwmFreq>>

-----------------------------------------------------------------------------
(* setSpeed(rpm) *)

steps_per_revolution == FULL_STEPS * stepDivider

(* self.speed = (rpm * steps_per_revolution) / 60, kept in 1/60 Hz *)
SpeedOf(rpm) == rpm * steps_per_revolution

(* if self.speed > self.MAX_RPM * steps_per_revolution / 60 *)
ExceedsLimit(rpm) == SpeedOf(rpm) > MAX_RPM * steps_per_revolution

(* pwm.freq(self.speed) in StepperMotor.py, pwm.freq(int(self.speed)) in   *)
(* BlinkLed.py                                                             *)
PwmFreqOf(rpm) ==
    IF variant = "BlinkLed" THEN IntOf(SpeedOf(rpm)) ELSE SpeedOf(rpm)

DirLevelForSpeed(rpm) == IF rpm * direction < 0 THEN 1 ELSE 0

(* the body of setSpeed, also run by homeMotorReverse; self.speed is       *)
(* assigned before the limit is checked                                    *)
setSpeedBody(rpm) ==
    /\ speed' = Some(SpeedOf(rpm))
    /\ IF ExceedsLimit(rpm)
       THEN /\ proc' = "exited"
            /\ UNCHANGED <<pwmFreq, dirLevel, currentSpeed>>
       ELSE /\ pwmFreq' = Some(PwmFreqOf(rpm))
            /\ dirLevel' = DirLevelForSpeed(rpm)
            /\ currentSpeed' = Some(rpm)
            /\ UNCHANGED proc

setSpeed(rpm) ==
    /\ Alive
    /\ setSpeedBody(rpm)
    /\ Record("setSpeed", rpm, IF ExceedsLimit(rpm) THEN "SystemExit" ELSE "ok")
    /\ UNCHANGED <<config, stepDivider, direction, position, stepLevel,
                   disableLevel, homingLevel, pulses, stepWrites>>

-----------------------------------------------------------------------------
(* homeMotorReverse(speed), homeMotorForward(speed) *)

(* variant of homeMotorReverse without the homingPin test *)
homeMotorReverse_NoPinCheck(spd) ==
    /\ Alive
    /\ setSpeedBody(spd)
    /\ IF ExceedsLimit(spd)
       THEN /\ Record("homeMotorReverse", spd, "SystemExit")
            /\ UNCHANGED position
       ELSE /\ position' = Some(0)
            /\ Record("homeMotorReverse", spd, "ok")
    /\ UNCHANGED <<config, stepDivider, direction, stepLevel, disableLevel,
                   homingLevel, pulses, stepWrites>>

homeMotorReverse(spd) ==
    /\ Alive
    /\ IF homingPin = None
       THEN /\ Record("homeMotorReverse", spd, "NoHomingPin")
            /\ UNCHANGED <<proc, currentSpeed, position, speed, dirLevel,
                           pwmFreq>>
       ELSE /\ setSpeedBody(spd)
            /\ IF ExceedsLimit(spd)
               THEN /\ Record("homeMotorReverse", spd, "SystemExit")
                    /\ UNCHANGED position
               ELSE /\ position' = Some(0)
                    /\ Record("homeMotorReverse", spd, "ok")
    /\ UNCHANGED <<config, stepDivider, direction, stepLevel, disableLevel,
                   homingLevel, pulses, stepWrites>>

(* variant of homeMotorForward that calls setSpeed as homeMotorReverse does *)
homeMotorForward_SetsSpeed(spd) ==
    /\ Alive
    /\ IF homingPin = None
       THEN /\ Record("homeMotorForward", spd, "NoHomingPin")
            /\ UNCHANGED <<proc, currentSpeed, position, speed, dirLevel,
                           pwmFreq>>
       ELSE /\ setSpeedBody(spd)
            /\ IF ExceedsLimit(spd)
               THEN /\ Record("homeMotorForward", spd, "SystemExit")
                    /\ UNCHANGED position
               ELSE /\ position' = Some(0)
                    /\ Record("homeMotorForward", spd, "ok")
    /\ UNCHANGED <<config, stepDivider, direction, stepLevel, disableLevel,
                   homingLevel, pulses, stepWrites>>

homeMotorForward(spd) ==
    /\ Alive
    /\ IF homingPin = None
       THEN /\ Record("homeMotorForward", spd, "NoHomingPin")
            /\ UNCHANGED position
       ELSE /\ position' = Some(0)
            /\ Record("homeMotorForward", spd, "ok")
    /\ UNCHANGED <<config, proc, currentSpeed, stepDivider, direction, speed,
                   stepLevel, dirLevel, disableLevel, homingLevel, pwmFreq,
                   pulses, stepWrites>>

(* Environment: the homing switch wired to the input pin opens or closes. *)
(* The class configures the pin in __init__ and never reads it.            *)
HomingSwitch ==
    /\ Alive
    /\ homingPin # None
    /\ homingLevel' = Some(1 - Val(homingLevel))
    /\ UNCHANGED <<config, proc, currentSpeed, stepDivider, direction,
                   position, speed, stepLevel, dirLevel, disableLevel,
                   pwmFreq, pulses, stepWrites, last, prev>>

-----------------------------------------------------------------------------

Next ==
    \/ enableMotor
    \/ disableMotor
    \/ reverseDirections
    \/ \E d \in DividerValues : setMicroStep(d)
    \/ \E steps \in StepValues : moveSteps(steps)
    \/ \E rpm \in RpmValues : setSpeed(rpm)
    \/ \E spd \in RpmValues : homeMotorReverse(spd)
    \/ \E spd \in RpmValues : homeMotorForward(spd)
    \/ HomingSwitch

Spec == Init /\ [][Next]_vars

-----------------------------------------------------------------------------
(* Properties *)

(* a step that is a call of method op: the call is recorded in last, and   *)
(* the homing switch, which no method moves, stays where it is             *)
Step(op) == last'.op = op /\ homingLevel' = homingLevel

ValidDividers == {1, 2, 4, 8, 16}

(* C1: every setSpeed(rpm) with abs(rpm) > 600, positive or negative, is   *)
(* rejected and leaves currentSpeed at its value before the call.          *)
C1_OverLimitRejected ==
    [][ (Step("setSpeed") /\ Abs(last'.arg) > 600)
            => (last'.result # "ok" /\ currentSpeed' = currentSpeed) ]_vars

(* C2: a rejected command (constructor with a missing pin, invalid         *)
(* divider, speed over the limit, homing without a homing pin) reports an  *)
(* error and leaves the controller running.                                *)
C2_RejectionKeepsRunning ==
    (last.result \in {"SystemExit", "NoHomingPin"}) => proc = "running"

(* C3: setMicroStep(d) succeeds and stores d for d in {1,2,4,8,16}; for    *)
(* every other d it fails with the divider unchanged; stepDivider is in    *)
(* {1,2,4,8,16} in every state of a constructed controller.                *)
C3_MicroStep ==
    /\ [](constructed => stepDivider \in ValidDividers)
    /\ [][ Step("setMicroStep") =>
             IF last'.arg \in ValidDividers
             THEN last'.result = "ok" /\ stepDivider' = last'.arg
             ELSE last'.result # "ok" /\ stepDivider' = stepDivider ]_vars

C3_Witness ==
    /\ last.op = "setMicroStep" /\ last.arg = 3 /\ last.result = "SystemExit"
    /\ stepDivider = 8

(* C4: construction sets position to 0, position is a defined integer in   *)
(* every state of a constructed controller, and a move succeeds.           *)
C4_PositionInitialised ==
    constructed =>
        /\ position # None
        /\ (last.op = "__init__" => position = Some(0))
        /\ (last.op = "moveSteps" => last.result = "ok")

(* C5: a move of `steps` adds steps * direction to a defined position.     *)
C5_MoveUpdatesPosition ==
    [][ (Step("moveSteps") /\ position # None)
            => position' = Some(Val(position) + last'.arg * direction) ]_vars

(* C6: moveSteps(0) succeeds and leaves position alone; moveSteps(N) and   *)
(* then moveSteps(-N) bring position back to where it was.                 *)
C6_ZeroMoveAndRoundTrip ==
    /\ [][ (Step("moveSteps") /\ last'.arg = 0)
             => (last'.result = "ok" /\ position' = position) ]_vars
    /\ []( (last.op = "moveSteps" /\ prev.op = "moveSteps"
            /\ last.arg = 0 - prev.arg)
             => position = prev.pre[1] )

(* C7: direction is +1 or -1; two reversals in a row restore it, and a     *)
(* move of any N then changes position as it would have before them.       *)
C7_DoubleReversal ==
    /\ constructed => direction \in {1, 0 - 1}
    /\ (last.op = "reverseDirections" /\ prev.op = "reverseDirections")
         => /\ direction = prev.pre[2]
            /\ \A n \in StepValues :
                 PositionAfterMove(position, direction, n)
                   = PositionAfterMove(position, prev.pre[2], n)

C7_Witness ==
    /\ last.op = "reverseDirections" /\ prev.op = "reverseDirections"
    /\ direction = 0 - 1
    /\ variant = "BlinkLed" /\ position # None

(* C8: without a homing pin both homing methods report the missing pin     *)
(* and change nothing: no speed is set, position is not reset.             *)
C8_HomingNotConfigured ==
    [][ ((Step("homeMotorReverse") \/ Step("homeMotorForward"))
          /\ homingPin = None)
            => /\ last'.result = "NoHomingPin"
               /\ UNCHANGED <<proc, position, currentSpeed, speed, pwmFreq,
                              dirLevel, stepLevel>> ]_vars

C8_Witness ==
    /\ last.op = "homeMotorReverse" /\ last.result = "NoHomingPin"
    /\ homingPin = None /\ currentSpeed = Some(300) /\ proc = "running"

(* C9: with a homing pin, homeMotorReverse(speed) sets the speed and       *)
(* resets position only once the homing switch has pulled the input pin    *)
(* low; a rejected speed leaves position alone.                            *)
C9_ResetAfterTrigger ==
    [][ (Step("homeMotorReverse") /\ homingPin # None) =>
          IF last'.result = "ok"
          THEN /\ currentSpeed' = Some(last'.arg)
               /\ position' = Some(0)
               /\ homingLevel = Some(0)
          ELSE position' = position ]_vars

(* C10: with a homing pin, homeMotorForward(speed) sets position to 0 and  *)
(* leaves speed, direction, divider, pins and PWM as they were, for every  *)
(* speed argument.                                                         *)
C10_HomeForwardFrame ==
    [][ (Step("homeMotorForward") /\ homingPin # None)
            => /\ last'.result = "ok"
               /\ position' = Some(0)
               /\ UNCHANGED <<proc, currentSpeed, direction, stepDivider,
                              speed, dirLevel, stepLevel, disableLevel,
                              pwmFreq, pulses>> ]_vars

C10_Witness ==
    /\ last.op = "homeMotorForward" /\ last.arg = 700 /\ last.result = "ok"
    /\ position = Some(0) /\ currentSpeed = Some(300) /\ proc = "running"

(* C11: an accepted setSpeed(rpm), abs(rpm) <= 600, hands the PWM the      *)
(* frequency abs(rpm * 200 * divider / 60), never a negative one, drives   *)
(* the direction pin by the sign of rpm * direction and stores rpm.        *)
(* Frequencies are in 1/60 Hz: divider 8 and rpm 300 give 60 * 8000.       *)
C11_SetSpeedFrequency ==
    [][ (Step("setSpeed") /\ Abs(last'.arg) <= 600)
            => /\ last'.result = "ok"
               /\ pwmFreq' = Some(Abs(last'.arg * 200 * stepDivider))
               /\ Val(pwmFreq') >= 0
               /\ dirLevel' = (IF last'.arg * direction < 0 THEN 1 ELSE 0)
               /\ currentSpeed' = Some(last'.arg) ]_vars

(* C12: a move that emits pulses while a continuous waveform is running    *)
(* stops the waveform first, so discrete pulses and the waveform are never *)
(* on the step pin together.                                               *)
C12_MoveStopsWaveform ==
    [][ (Step("moveSteps") /\ last'.arg # 0 /\ pwmFreq # None)
            => pwmFreq' = None ]_vars

(* C13: a running waveform changes only through setSpeed (also when        *)
(* called by homeMotorReverse), disableMotor or a move, and after          *)
(* disableMotor no waveform is running.                                    *)
C13_WaveformUntilSuperseded ==
    /\ [][ (pwmFreq # None /\ pwmFreq' # pwmFreq)
             => last'.op \in {"setSpeed", "homeMotorReverse", "disableMotor",
                              "moveSteps"} ]_vars
    /\ [][ Step("disableMotor") => pwmFreq' = None ]_vars

(* C14: the constructor fails when a step, direction or disable pin is     *)
(* missing; otherwise it leaves step pin 0, direction pin 0, disable pin   *)
(* 1, direction +1, divider 1, no speed, no waveform and no pulse.         *)
C14_Construction ==
    last.op = "__init__" =>
        IF last.result = "ok"
        THEN /\ stepPin # None /\ dirPin # None /\ disablePin # None
             /\ stepLevel = 0 /\ dirLevel = 0 /\ disableLevel = 1
             /\ direction = 1 /\ stepDivider = 1
             /\ currentSpeed = None /\ pwmFreq = None /\ pulses = 0
        ELSE ~constructed /\ proc = "exited"

(* C15: enableMotor drives the disable pin to 0 and disableMotor to 1;     *)
(* each leaves position, direction, divider and speed alone; repeating     *)
(* either changes nothing; disableMotor can be called in every state of a  *)
(* running controller.                                                     *)
C15_EnableDisable ==
    /\ [][ Step("enableMotor") =>
             /\ last'.result = "ok" /\ disableLevel' = 0
             /\ UNCHANGED <<proc, position, direction, stepDivider,
                            currentSpeed, speed, pwmFreq, stepLevel,
                            dirLevel, pulses>> ]_vars
    /\ [][ Step("disableMotor") =>
             /\ last'.result = "ok" /\ disableLevel' = 1
             /\ UNCHANGED <<proc, position, direction, stepDivider,
                            currentSpeed, speed, pwmFreq, stepLevel,
                            dirLevel, pulses>> ]_vars
    /\ [][ (Step("enableMotor") /\ last.op = "enableMotor")
             => disableLevel' = disableLevel ]_vars
    /\ [][ (Step("disableMotor") /\ last.op = "disableMotor")
             => disableLevel' = disableLevel ]_vars
    /\ [](Alive => ENABLED disableMotor)

C15_Witness ==
    /\ last.op = "disableMotor" /\ disableLevel = 1
    /\ currentSpeed = Some(300) /\ position = Some(0) /\ stepDivider = 8

(* C16: a successful setMicroStep(d) changes the divider only, and no      *)
(* stored step frequency disagrees with currentSpeed * 200 * divider / 60  *)
(* as setSpeed last computed it, also after a rejected setSpeed.           *)
C16_NoStaleFrequency ==
    /\ [][ (Step("setMicroStep") /\ last'.result = "ok") =>
             UNCHANGED <<currentSpeed, position, direction, pwmFreq,
                         speed>> ]_vars
    /\ []( speed # None =>
             /\ currentSpeed # None
             /\ \E d \in ValidDividers :
                  Val(speed) = Val(currentSpeed) * 200 * d )

(* C17: a move of steps # 0 drives the direction pin by the sign of        *)
(* steps * direction, and the two signs give two different levels: of two  *)
(* moves in a row (direction is the same for both) the second leaves the   *)
(* pin where the first put it when the signs agree, and at the other       *)
(* level when they differ.                                                 *)
C17_MoveDirectionPin ==
    [][ (Step("moveSteps") /\ last.op = "moveSteps"
         /\ last.arg # 0 /\ last'.arg # 0 /\ last'.pre[2] = last.pre[2])
            => IF last.arg * last'.arg > 0
               THEN dirLevel' = dirLevel
               ELSE dirLevel' # dirLevel ]_vars

(* C18: a move emits exactly abs(steps) pulses, each a step pin high       *)
(* followed by a step pin low with no other write between, all of them     *)
(* before the call returns, and leaves the step pin low; no other call     *)
(* writes the step pin, and the pulses of a setSpeed call (its waveform)   *)
(* are not on the step pin among the pulses of the move.                   *)
C18_PulseTrain ==
    /\ [][ Step("moveSteps") =>
             /\ Len(stepWrites') = 2 * Abs(last'.arg)
             /\ \A i \in 1 .. Abs(last'.arg) :
                  stepWrites'[2 * i - 1] = 1 /\ stepWrites'[2 * i] = 0
             /\ pulses' = Abs(last'.arg)
             /\ stepLevel' = 0 ]_vars
    /\ [][ stepWrites' # stepWrites => Step("moveSteps") ]_vars
    /\ [][ (Step("moveSteps") /\ last'.arg # 0) => pwmFreq' = None ]_vars

(* C19: moves and speeds use one direction pin convention: a move and an   *)
(* accepted setSpeed of the same sign, one right after the other (so with  *)
(* the same direction), put the direction pin at the same level.           *)
C19_SameDirectionConvention ==
    /\ [][ (Step("setSpeed") /\ last'.result = "ok"
            /\ last.op = "moveSteps" /\ last.arg * last'.arg > 0)
             => dirLevel' = dirLevel ]_vars
    /\ [][ (Step("moveSteps") /\ last.op = "setSpeed"
            /\ last.result = "ok" /\ last.arg * last'.arg > 0)
             => dirLevel' = dirLevel ]_vars

(* C20: a defined currentSpeed has magnitude at most 600, and every        *)
(* frequency handed to the PWM lies between 0 and 600 * 200 * divider / 60 *)
(* for the divider in force at that call (in 1/60 Hz here).                *)
C20_SpeedWithinLimit ==
    /\ [](currentSpeed # None => Abs(Val(currentSpeed)) <= 600)
    /\ [][ (pwmFreq' # pwmFreq) =>
             /\ Val(pwmFreq') >= 0
             /\ Val(pwmFreq') <= 600 * 200 * stepDivider ]_vars

====
